---- MODULE Spec2Model ----
(***************************************************************************)
(* A model of src/src/windows/process.rs: the per-process record           *)
(* (ProcessInner), its two constructors, its refresh (update), its         *)
(* blocking wait, and the OS objects they act on (process handles, the     *)
(* target process's creation time and liveness, the cumulative CPU and     *)
(* I/O counters).                                                          *)
(*                                                                         *)
(* Option<T> is modelled as a sequence: <<>> is None, <<x>> is Some(x).    *)
(* An OS query that can fail answers the same way: <<>> is the failure.    *)
(* Paths are sequences of components; strings are TLA+ strings.            *)
(* f32 values are exact rationals [num, den]: every integer the model      *)
(* converts is far below 2^24, where u64 -> f32 is exact and the rounding  *)
(* of the quotient is monotone.                                            *)
(***************************************************************************)
EXTENDS Integers, Sequences, FiniteSets, TLC

(***************************************************************************)
(* Bounds of the model.  Times are scaled: the model's u64 has             *)
(* U64Modulus values instead of 2^64, a second has TicksPerSec FILETIME    *)
(* ticks instead of 10_000_000, and the 1601-to-1970 offset is EpochSecs   *)
(* seconds instead of 11_644_473_600 (TLC's integers are 32 bits wide).    *)
(* What the scaling keeps: EpochSecs > 0, and a wrapped start time         *)
(* (U64Modulus - EpochSecs) is later than every `now'.                     *)
(***************************************************************************)
MaxRecords == 2
MaxCounter == 2
MaxCpus == 2
MaxNow == 3
MaxStart == 2
TicksPerSec == 2
EpochSecs == 2
U64Modulus == 32

U64Max == U64Modulus - 1

None == <<>>
Some(x) == <<x>>
Unwrap(o) == o[1]
UnwrapOr(o, d) == IF o = <<>> THEN d ELSE o[1]

Slots == 1 .. MaxRecords
TargetPid == 1
ParentPid == 7
HandleIds == 1 .. (MaxRecords + 1)

(***************************************************************************)
(* Pure helpers of the source.                                             *)
(***************************************************************************)
\* fn check_sub(a, b): a when a < b, else a - b.
check_sub(a, b) == IF a < b THEN a ELSE a - b

\* u64::saturating_sub and u64::saturating_add.
saturating_sub(a, b) == IF a < b THEN 0 ELSE a - b
saturating_add(a, b) == IF a + b > U64Max THEN U64Max ELSE a + b

\* fn compute_start: process_times / 10_000_000 - 11_644_473_600 in u64.
\* The subtraction underflows when the quotient is below the offset: a build
\* with overflow checks panics there, a build without them wraps.
compute_start_underflows(process_times) ==
    process_times \div TicksPerSec < EpochSecs
compute_start(process_times) ==
    (process_times \div TicksPerSec - EpochSecs) % U64Modulus

\* fn get_process_times: GetProcessTimes' result is discarded (`let _err`);
\* on failure fstart keeps its zeroed value.
get_process_times(times_answer) == UnwrapOr(times_answer, 0)

\* fn get_start_time(handle)
get_start_time(times_answer) == compute_start(get_process_times(times_answer))

\* fn get_start_and_run_time(handle, now) -> (start, run_time)
get_start_and_run_time(times_answer, now) ==
    LET start == compute_start(get_process_times(times_answer))
    IN  <<start, check_sub(now, start)>>

\* PathBuf::pop on the executable path: the parent directory, or the empty
\* path unchanged.
Pop(path) == IF path = <<>> THEN <<>> ELSE SubSeq(path, 1, Len(path) - 1)

\* fn get_executable_path(_pid): always the empty path.
get_executable_path(pid) == <<>>

\* CPUsageCalculationValues::new
CPUsageCalculationValues_new ==
    [old_process_sys_cpu |-> 0, old_process_user_cpu |-> 0,
     old_system_sys_cpu |-> 0, old_system_user_cpu |-> 0]

\* The f32 0.0 and the f32 quotient 100 * (n / d) * nb_cpus.
ZeroF32 == [num |-> 0, den |-> 1]

(***************************************************************************)
(* Variable-length queries.  The OS's side of a query is a script: the     *)
(* answer to the first call, to the second, and so on; a call beyond the   *)
(* script fails with an incompatible error.  An answer is                  *)
(*   [st |-> "ok" | "too_small" | "other", len |-> bytes reported]         *)
(* and an "ok" call fills the buffer it was given.  Buffers are numbered   *)
(* in the order they are allocated.                                        *)
(***************************************************************************)
OtherError == [st |-> "other", len |-> 0]
Answer(script, i) == IF i <= Len(script) THEN script[i] ELSE OtherError

\* The UTF-16 units the OS writes into a buffer of n units.
AttrData(n) == [i \in 1 .. n |-> i + 1]

\* The allocators' books: live buffers with the allocator each came from
\* ("local": LocalAlloc / LocalFree, "heap": HeapAlloc / HeapFree), and the
\* misuse seen so far.  A release through another allocator than the
\* buffer's own, or of a buffer that is not live, sets bad_free.
EmptyHeap == [live |-> {}, allocs |-> 0, frees |-> 0,
              bad_free |-> FALSE, bad_use |-> FALSE]
HeapAllocate(heap, allocator) ==
    [heap EXCEPT !.live = @ \cup {<<heap.allocs + 1, allocator>>},
                 !.allocs = @ + 1]
HeapRelease(heap, b, allocator) ==
    [heap EXCEPT !.live = @ \ {<<b, allocator>>}, !.frees = @ + 1,
                 !.bad_free = @ \/ <<b, allocator>> \notin heap.live]
HeapUse(heap, b) ==
    [heap EXCEPT !.bad_use = @ \/ b \notin {l[1] : l \in heap.live}]

\* fn ph_query_process_variable_size(handle, class) -> [result, calls].
\* The probe's Ok is not an error either: the sized call follows it too.
ph_query_process_variable_size(script) ==
    LET probe == Answer(script, 1)
        fetch == Answer(script, 2)
        buf_len == probe.len \div 2
    IN  IF probe.st = "other" THEN [result |-> None, calls |-> 1]
        ELSE IF fetch.st # "ok" THEN [result |-> None, calls |-> 2]
        ELSE [result |-> Some(AttrData(buf_len) \o <<0>>), calls |-> 2]

\* Path::file_name of the image path the OS wrote.
file_name(path) == IF path = <<>> THEN None ELSE Some(path[Len(path)])

\* A name loop that keeps the buffer of a mismatched attempt when it retries.
RECURSIVE get_process_name_from_leaking(_, _, _, _, _)
get_process_name_from_leaking(i, script, alloc_fails_at, image, heap) ==
    IF i = alloc_fails_at
    THEN [result |-> None, attempts |-> i, heap |-> heap]
    ELSE
    LET h1 == HeapAllocate(heap, "local")
        buf == h1.allocs
        answer == Answer(script, i + 1)
    IN  IF answer.st = "ok"
        THEN [result |-> file_name(image), attempts |-> i + 1,
              heap |-> HeapRelease(HeapUse(h1, buf), buf, "local")]
        ELSE IF answer.st = "too_small"
        THEN IF i > 2
             THEN [result |-> None, attempts |-> i + 1,
                   heap |-> HeapRelease(h1, buf, "local")]
             ELSE get_process_name_from_leaking(i + 1, script, alloc_fails_at,
                                                image, h1)
        ELSE [result |-> None, attempts |-> i + 1,
              heap |-> HeapRelease(h1, buf, "local")]

\* A name loop that retries on every size mismatch, without a bound.
RECURSIVE get_process_name_from_unbounded(_, _, _, _, _)
get_process_name_from_unbounded(i, script, alloc_fails_at, image, heap) ==
    IF i = alloc_fails_at
    THEN [result |-> None, attempts |-> i, heap |-> heap]
    ELSE
    LET h1 == HeapAllocate(heap, "local")
        buf == h1.allocs
        answer == Answer(script, i + 1)
    IN  IF answer.st = "ok"
        THEN [result |-> file_name(image), attempts |-> i + 1,
              heap |-> HeapRelease(HeapUse(h1, buf), buf, "local")]
        ELSE IF answer.st = "too_small"
        THEN get_process_name_from_unbounded(i + 1, script, alloc_fails_at,
                                             image,
                                             HeapRelease(h1, buf, "local"))
        ELSE [result |-> None, attempts |-> i + 1,
              heap |-> HeapRelease(h1, buf, "local")]

\* The `for i in 0..' loop of get_process_name from attempt i on.
\* alloc_fails_at: the attempt whose LocalAlloc fails (-1: none does).
RECURSIVE get_process_name_from(_, _, _, _, _)
get_process_name_from(i, script, alloc_fails_at, image, heap) ==
    IF i = alloc_fails_at
    THEN [result |-> None, attempts |-> i, heap |-> heap]
    ELSE
    LET h1 == HeapAllocate(heap, "local")
        buf == h1.allocs
        answer == Answer(script, i + 1)
    IN  IF answer.st = "ok"
        THEN \* break; the name is read from the buffer, which is then freed
             [result |-> file_name(image), attempts |-> i + 1,
              heap |-> HeapRelease(HeapUse(h1, buf), buf, "local")]
        ELSE IF answer.st = "too_small"
        THEN IF i > 2
             THEN [result |-> None, attempts |-> i + 1,
                   heap |-> HeapRelease(h1, buf, "local")]
             ELSE get_process_name_from(i + 1, script, alloc_fails_at, image,
                                        HeapRelease(h1, buf, "local"))
        ELSE [result |-> None, attempts |-> i + 1,
              heap |-> HeapRelease(h1, buf, "local")]

\* fn get_process_name(pid) -> [result: Option<String>, attempts, heap]
get_process_name(script, alloc_fails_at, image) ==
    get_process_name_from(0, script, alloc_fails_at, image, EmptyHeap)

(***************************************************************************)
(* OS handles.  The table maps every handle value to "closed" or to what   *)
(* it was opened as; OpenProcess / OpenProcessToken return the smallest    *)
(* free value.  CloseHandle on a closed value sets bad_close.              *)
(***************************************************************************)
OpenIds(H) == {h \in HandleIds : H.tab[h] # "closed"}
Fresh(H) == CHOOSE h \in HandleIds \ OpenIds(H) :
                \A g \in HandleIds \ OpenIds(H) : h <= g
OsOpen(H, as) == [H EXCEPT !.tab[Fresh(H)] = as]

\* impl Drop for HandleWrapper: CloseHandle(self.0), once per wrapper.
HandleWrapper_drop(H, h) ==
    [tab |-> [H.tab EXCEPT ![h] = "closed"],
     bad_close |-> H.bad_close \/ H.tab[h] = "closed"]

\* An acquire that never falls back to the query-limited open.
get_process_handler_no_fallback(pid, a, H) ==
    IF pid = 0 THEN [handle |-> None, H |-> H, opens |-> <<>>]
    ELSE IF a.open_broad
         THEN [handle |-> Some(Fresh(H)), H |-> OsOpen(H, "broad"),
               opens |-> <<"broad">>]
    ELSE [handle |-> None, H |-> H, opens |-> <<"broad">>]

\* An acquire that asks for the query-limited open first.
get_process_handler_limited_first(pid, a, H) ==
    IF pid = 0 THEN [handle |-> None, H |-> H, opens |-> <<>>]
    ELSE IF a.open_limited
         THEN [handle |-> Some(Fresh(H)), H |-> OsOpen(H, "limited"),
               opens |-> <<"limited">>]
    ELSE IF a.open_broad
         THEN [handle |-> Some(Fresh(H)), H |-> OsOpen(H, "broad"),
               opens |-> <<"limited", "broad">>]
    ELSE [handle |-> None, H |-> H, opens |-> <<"limited", "broad">>]

\* fn get_process_handler(pid) -> [handle: Option<HandleWrapper>, H, opens]
\* a.open_broad / a.open_limited: whether OpenProcess succeeds with
\* PROCESS_QUERY_INFORMATION | PROCESS_VM_READ / with
\* PROCESS_QUERY_LIMITED_INFORMATION.  opens lists the OpenProcess calls made.
get_process_handler(pid, a, H) ==
    IF pid = 0 THEN [handle |-> None, H |-> H, opens |-> <<>>]
    ELSE IF a.open_broad
         THEN [handle |-> Some(Fresh(H)), H |-> OsOpen(H, "broad"),
               opens |-> <<"broad">>]
    ELSE IF a.open_limited
         THEN [handle |-> Some(Fresh(H)), H |-> OsOpen(H, "limited"),
               opens |-> <<"broad", "limited">>]
    ELSE [handle |-> None, H |-> H, opens |-> <<"broad", "limited">>]

\* fn get_process_user_id(handle, refresh_kind)
\*   -> [uid: Option<Uid>, H, calls, heap]
\* The token handle is wrapped at line 132 and dropped on every return after;
\* the TOKEN_USER buffer is a HeapWrap, freed by its Drop on every return
\* after line 141.  calls counts the GetTokenInformation calls.
\* a.heap_ok: GetProcessHeap and HeapAlloc both succeed; the process heap
\* that served HeapWrap::new is the one HeapWrap's Drop gets again.
get_process_user_id(kind, a, H) ==
    IF ~kind.user
    THEN [uid |-> None, H |-> H, calls |-> 0, heap |-> EmptyHeap]
    ELSE IF ~a.token_open
    THEN [uid |-> None, H |-> H, calls |-> 0, heap |-> EmptyHeap]
    ELSE LET token == Fresh(H)
             H1 == OsOpen(H, "token")
             closed == HandleWrapper_drop(H1, token)
             ptu == HeapAllocate(EmptyHeap, "heap")
             buf == ptu.allocs
         IN  IF a.token_info1 = "other"
             THEN [uid |-> None, H |-> closed, calls |-> 1,
                   heap |-> EmptyHeap]
             ELSE IF ~a.heap_ok
             THEN [uid |-> None, H |-> closed, calls |-> 1,
                   heap |-> EmptyHeap]
             ELSE IF ~a.token_info2
             THEN [uid |-> None, H |-> closed, calls |-> 2,
                   heap |-> HeapRelease(ptu, buf, "heap")]
             ELSE [uid |-> a.sid, H |-> closed, calls |-> 2,
                   heap |-> HeapRelease(HeapUse(ptu, buf), buf, "heap")]

(***************************************************************************)
(* The record and its constructors.                                        *)
(***************************************************************************)
\* struct ProcessInner, with the field values both constructors share.
ProcessInner(name, cmd, exe, pid, user_id, environ, cwd, root, memory, virtual_memory, parent, handle, start_time, run_time) ==
    [name |-> name, cmd |-> cmd, exe |-> exe, pid |-> pid,
     user_id |-> user_id, environ |-> environ, cwd |-> cwd, root |-> root,
     memory |-> memory, virtual_memory |-> virtual_memory,
     parent |-> parent, status |-> "Run", handle |-> handle,
     cpu_calc_values |-> CPUsageCalculationValues_new,
     start_time |-> start_time, run_time |-> run_time,
     cpu_usage |-> ZeroF32, updated |-> TRUE,
     old_read_bytes |-> 0, old_written_bytes |-> 0,
     read_bytes |-> 0, written_bytes |-> 0]

\* "=".encode_utf16().next().unwrap()
equals == 61

\* OsString::from_wide(..).to_string_lossy(): a surrogate unit without its
\* pair becomes U+FFFD, every other unit is kept.  (The alphabets below hold
\* no low surrogate, so every surrogate in them is unpaired.)
to_string_lossy(units) ==
    [i \in 1 .. Len(units) |->
        IF units[i] >= 55296 /\ units[i] <= 57343 THEN 65533 ELSE units[i]]

\* raw_env[begin..].iter().position(|&c| c == 0), as an absolute index
\* (1-based; 0: none).
NextTerminator(raw_env, begin) ==
    IF \E i \in begin .. Len(raw_env) : raw_env[i] = 0
    THEN CHOOSE i \in begin .. Len(raw_env) :
             /\ raw_env[i] = 0
             /\ \A j \in begin .. (i - 1) : raw_env[j] # 0
    ELSE 0

\* An env loop that skips an entry without '=' and goes on.
RECURSIVE get_proc_env_skipping(_, _, _)
get_proc_env_skipping(raw_env, begin, result) ==
    LET end == NextTerminator(raw_env, begin)
    IN  IF end = 0 THEN result
        ELSE IF \E i \in begin .. (end - 1) : raw_env[i] = equals
        THEN get_proc_env_skipping(raw_env, end + 1,
                 Append(result,
                        to_string_lossy(SubSeq(raw_env, begin, end - 1))))
        ELSE get_proc_env_skipping(raw_env, end + 1, result)

\* The `while let Some(offset)' loop of get_proc_env from `begin' on.
RECURSIVE get_proc_env_from(_, _, _)
get_proc_env_from(raw_env, begin, result) ==
    LET end == NextTerminator(raw_env, begin)
    IN  IF end = 0 THEN result
        ELSE IF \E i \in begin .. (end - 1) : raw_env[i] = equals
        THEN get_proc_env_from(raw_env, end + 1,
                 Append(result,
                        to_string_lossy(SubSeq(raw_env, begin, end - 1))))
        ELSE result

\* fn get_process_data(handle, ptr, size): the units read and a pushed 0.
get_process_data(data) == data \o <<0>>

\* fn get_proc_env, Ok arm: parse the buffer get_environ returned.
get_proc_env(data) == get_proc_env_from(get_process_data(data), 1, <<>>)

(***************************************************************************)
(* get_process_params.  st holds the outcome of each step:                 *)
(*   target64     cfg!(target_pointer_width = "64")                        *)
(*   wow64        ProcessWow64Information: "fail", "native" (null) or      *)
(*                "wow64"                                                  *)
(*   basic        ProcessBasicInformation (native targets only)            *)
(*   peb          ReadProcessMemory of the PEB / PEB32                     *)
(*   proc_params  ReadProcessMemory of the parameters block                *)
(*   win81        WINDOWS_8_1_OR_NEWER                                     *)
(*   cmd_script   the OS's answers to ProcessCommandLineInformation         *)
(*   cmd_read, cwd_read, env_read   ReadProcessMemory of each field        *)
(*   env_region   VirtualQueryEx on the environment block                  *)
(*   env_data     the units of the environment block                       *)
(***************************************************************************)
GoodCmd == <<"proc.exe", "-v">>
GoodCwd == <<"C:", "work">>
GoodEnvData == <<65, equals, 0, equals, 66, 0, 0, 67>>
GoodScript == <<[st |-> "too_small", len |-> 4], [st |-> "ok", len |-> 4]>>
GoodSteps ==
    [target64 |-> TRUE, wow64 |-> "native", basic |-> TRUE, peb |-> TRUE,
     proc_params |-> TRUE, win81 |-> TRUE, cmd_script |-> GoodScript,
     cmd_read |-> TRUE, cwd_read |-> TRUE, env_region |-> TRUE,
     env_read |-> TRUE, env_data |-> GoodEnvData]

\* fn get_cmd_line_new(handle)
get_cmd_line_new(st) ==
    IF ph_query_process_variable_size(st.cmd_script).result # None
    THEN GoodCmd ELSE <<>>

\* fn get_cmd_line_old(params, handle)
get_cmd_line_old(st) == IF st.cmd_read THEN GoodCmd ELSE <<>>

\* fn get_cmd_line(params, handle)
get_cmd_line(st) ==
    IF st.win81 THEN get_cmd_line_new(st) ELSE get_cmd_line_old(st)

\* fn get_proc_env(params, handle), with get_environ's two steps
get_environ_parsed(st) ==
    IF st.env_region /\ st.env_read THEN get_proc_env(st.env_data) ELSE <<>>

\* fn get_cwd(params, handle)
get_cwd(st) == IF st.cwd_read THEN GoodCwd ELSE <<>>

\* fn get_process_params(handle) -> Option<[cmd, environ, cwd]>
\* can_read: ReadProcessMemory is allowed on the handle.
get_process_params(can_read, st) ==
    IF ~st.target64 THEN None
    ELSE IF st.wow64 = "fail" THEN None
    ELSE IF st.wow64 = "native" /\ ~st.basic THEN None
    ELSE IF ~(can_read /\ st.peb) THEN None
    ELSE IF ~(can_read /\ st.proc_params) THEN None
    ELSE Some([cmd |-> get_cmd_line(st),
               environ |-> get_environ_parsed(st),
               cwd |-> get_cwd(st)])

EmptyParams == [cmd |-> <<>>, environ |-> <<>>, cwd |-> <<>>]

\* What the OS lets a handle do: GetModuleFileNameExW and ReadProcessMemory
\* need PROCESS_VM_READ, which a query-limited handle lacks.
CanReadMemory(H, h) == H.tab[h] = "broad"

\* fn get_exe(handle): the module file name, or the empty path when the
\* call fails and the zeroed buffer is converted.
get_exe(H, h, a) == IF CanReadMemory(H, h) THEN a.exe ELSE <<>>

\* get_process_params(handle) as the constructors use it: Ok(cmd, environ,
\* cwd), or the three empty values on Err.
params_or_empty(H, h, a) ==
    UnwrapOr(get_process_params(CanReadMemory(H, h), a.steps), EmptyParams)

\* An early return that keeps the process handle open.
basic_info_failed_leaking(H1, h) ==
    [result |-> None, H |-> H1, panicked |-> FALSE]

\* new_from_pid's `return None' when NtQueryInformationProcess fails:
\* process_handler goes out of scope there and is dropped.
basic_info_failed(H1, h) ==
    [result |-> None, H |-> HandleWrapper_drop(H1, h), panicked |-> FALSE]

\* ProcessInner::new_from_pid(pid, now, refresh_kind).
\* Result: [result: Option<ProcessInner>, H, panicked].
new_from_pid(pid, now, kind, a, H0, overflow_checks) ==
    LET got == get_process_handler(pid, a, H0)
    IN  IF got.handle = None
        THEN [result |-> None, H |-> H0, panicked |-> FALSE]
        ELSE
        LET h == Unwrap(got.handle)
            H1 == got.H
        IN  IF a.basic = None
            THEN basic_info_failed(H1, h)
            ELSE
            LET name == UnwrapOr(a.name, "")
                exe == get_exe(H1, h, a)
                root == Pop(exe)
                params == params_or_empty(H1, h, a)
                times == get_start_and_run_time(a.times, now)
                parent == IF Unwrap(a.basic) # 0 THEN Some(Unwrap(a.basic))
                          ELSE None
                user == get_process_user_id(kind, a, H1)
            IN  IF overflow_checks
                   /\ compute_start_underflows(get_process_times(a.times))
                THEN \* the subtraction panics; unwinding drops the handle
                     [result |-> None, H |-> HandleWrapper_drop(H1, h),
                      panicked |-> TRUE]
                ELSE [result |-> Some(ProcessInner(name, params.cmd, exe, pid,
                                   user.uid, params.environ, params.cwd, root,
                                   0, 0, parent, Some(h), times[1], times[2])),
                      H |-> user.H, panicked |-> FALSE]

\* ProcessInner::new_full(pid, parent, memory, virtual_memory, name, now,
\* refresh_kind).  Result: [result: Some(ProcessInner), H, panicked].
new_full(pid, parent, memory, virtual_memory, name, now, kind, a, H0, overflow_checks) ==
    LET got == get_process_handler(pid, a, H0)
    IN  IF got.handle # None
        THEN
        LET h == Unwrap(got.handle)
            H1 == got.H
            exe == get_exe(H1, h, a)
            root == Pop(exe)
            params == params_or_empty(H1, h, a)
            times == get_start_and_run_time(a.times, now)
            user == get_process_user_id(kind, a, H1)
        IN  IF overflow_checks
               /\ compute_start_underflows(get_process_times(a.times))
            THEN [result |-> None, H |-> HandleWrapper_drop(H1, h),
                  panicked |-> TRUE]
            ELSE [result |-> Some(ProcessInner(name, params.cmd, exe, pid,
                               user.uid, params.environ, params.cwd, root,
                               memory, virtual_memory, parent, Some(h),
                               times[1], times[2])),
                  H |-> user.H, panicked |-> FALSE]
        ELSE [result |-> Some(ProcessInner(name, <<>>, get_executable_path(pid),
                           pid, None, <<>>, <<>>, <<>>, memory, virtual_memory,
                           parent, None, 0, 0)),
              H |-> H0, panicked |-> FALSE]

(***************************************************************************)
(* The usage metrics.  m holds the OS answers of one refresh:              *)
(*   m.proc  GetProcessTimes:      None or Some([creation, sys, user])     *)
(*   m.glob  GetSystemTimes:       None or Some([kernel, user])            *)
(*   m.io    GetProcessIoCounters: None or Some([read, written])           *)
(*   m.mem   GetProcessMemoryInfo: None or Some([working_set, private])    *)
(***************************************************************************)
ZeroTimes == [creation |-> 0, sys |-> 0, user |-> 0]
ZeroGlobal == [kernel |-> 0, user |-> 0]

\* The raw counters compute_cpu_usage reads: the zeroed FILETIMEs stay when
\* the record has no handle or a call fails (both results are discarded).
raw_cpu_counters(p, m) ==
    LET proc == IF p.handle # None THEN UnwrapOr(m.proc, ZeroTimes)
                ELSE ZeroTimes
        glob == UnwrapOr(m.glob, ZeroGlobal)
    IN  [sys |-> proc.sys, user |-> proc.user,
         global_kernel_time |-> glob.kernel, global_user_time |-> glob.user]

\* The four deltas of compute_cpu_usage (lines 1055-1060).
cpu_deltas(p, raw) ==
    [delta_global_kernel_time |->
         check_sub(raw.global_kernel_time, p.cpu_calc_values.old_system_sys_cpu),
     delta_global_user_time |->
         check_sub(raw.global_user_time, p.cpu_calc_values.old_system_user_cpu),
     delta_user_time |->
         check_sub(raw.user, p.cpu_calc_values.old_process_user_cpu),
     delta_sys_time |->
         check_sub(raw.sys, p.cpu_calc_values.old_process_sys_cpu)]

\* A compute_cpu_usage that returns on a zero denominator before it stores
\* the new counters.
compute_cpu_usage_early_return(p, nb_cpus, m) ==
    LET raw == raw_cpu_counters(p, m)
        d == cpu_deltas(p, raw)
        stored == [old_process_user_cpu |-> raw.user,
                   old_process_sys_cpu |-> raw.sys,
                   old_system_user_cpu |-> raw.global_user_time,
                   old_system_sys_cpu |-> raw.global_kernel_time]
        denominator == saturating_add(d.delta_global_user_time,
                                      d.delta_global_kernel_time)
    IN  IF denominator = 0
        THEN [p EXCEPT !.cpu_usage = ZeroF32]
        ELSE [p EXCEPT !.cpu_calc_values = stored,
                       !.cpu_usage =
                           [num |-> 100 * saturating_add(d.delta_user_time,
                                                         d.delta_sys_time)
                                        * nb_cpus,
                            den |-> denominator]]

\* fn compute_cpu_usage(p, nb_cpus)
compute_cpu_usage(p, nb_cpus, m) ==
    LET raw == raw_cpu_counters(p, m)
        d == cpu_deltas(p, raw)
        stored == [old_process_user_cpu |-> raw.user,
                   old_process_sys_cpu |-> raw.sys,
                   old_system_user_cpu |-> raw.global_user_time,
                   old_system_sys_cpu |-> raw.global_kernel_time]
        denominator == saturating_add(d.delta_global_user_time,
                                      d.delta_global_kernel_time)
    IN  IF denominator = 0   \* `denominator < 0.00001' of an integer's f32
        THEN [p EXCEPT !.cpu_calc_values = stored, !.cpu_usage = ZeroF32]
        ELSE [p EXCEPT !.cpu_calc_values = stored,
                       !.cpu_usage =
                           [num |-> 100 * saturating_add(d.delta_user_time,
                                                         d.delta_sys_time)
                                        * nb_cpus,
                            den |-> denominator]]

\* An update_disk_usage that never moves the current counters to the old.
update_disk_usage_keeping_old(p, m) ==
    IF p.handle # None /\ m.io # None
    THEN [p EXCEPT !.read_bytes = Unwrap(m.io).read,
                   !.written_bytes = Unwrap(m.io).written]
    ELSE p

\* fn update_disk_usage(p)
update_disk_usage(p, m) ==
    IF p.handle # None /\ m.io # None
    THEN [p EXCEPT !.old_read_bytes = p.read_bytes,
                   !.old_written_bytes = p.written_bytes,
                   !.read_bytes = Unwrap(m.io).read,
                   !.written_bytes = Unwrap(m.io).written]
    ELSE p

\* fn update_memory(p)
update_memory(p, m) ==
    IF p.handle # None /\ m.mem # None
    THEN [p EXCEPT !.memory = Unwrap(m.mem).working_set,
                   !.virtual_memory = Unwrap(m.mem).private]
    ELSE p

\* A refresh that reads the start time again from GetProcessTimes.
update_rereading_start(p, kind, nb_cpus, now, m) ==
    LET p1 == IF kind.cpu THEN compute_cpu_usage(p, nb_cpus, m) ELSE p
        p2 == IF kind.disk_usage THEN update_disk_usage(p1, m) ELSE p1
        p3 == update_memory(p2, m)
        start == IF p.handle # None /\ m.proc # None
                 THEN compute_start(Unwrap(m.proc).creation)
                 ELSE p3.start_time
    IN  [p3 EXCEPT !.start_time = start,
                   !.run_time = saturating_sub(now, start),
                   !.updated = TRUE]

\* ProcessInner::update(refresh_kind, nb_cpus, now)
update(p, kind, nb_cpus, now, m) ==
    LET p1 == IF kind.cpu THEN compute_cpu_usage(p, nb_cpus, m) ELSE p
        p2 == IF kind.disk_usage THEN update_disk_usage(p1, m) ELSE p1
        p3 == update_memory(p2, m)
    IN  [p3 EXCEPT !.run_time = saturating_sub(now, p3.start_time),
                   !.updated = TRUE]

\* ProcessInner::disk_usage() -> DiskUsage
disk_usage(p) ==
    [written_bytes |-> saturating_sub(p.written_bytes, p.old_written_bytes),
     total_written_bytes |-> p.written_bytes,
     read_bytes |-> saturating_sub(p.read_bytes, p.old_read_bytes),
     total_read_bytes |-> p.read_bytes]

\* ProcessInner::status()
status(p) == p.status

(***************************************************************************)
(* State.                                                                  *)
(*   recs            the caller's records: recs[s] is None or Some(record) *)
(*   os_handles      the OS handle table and the bad-close flag            *)
(*   os_running      whether the process now holding TargetPid is running  *)
(*   os_create       the raw creation FILETIME of that process             *)
(*   clock           the caller's `now' (seconds)                          *)
(*   overflow_checks the build: u64 underflow panics (TRUE) or wraps       *)
(*   panicked        the program panicked                                  *)
(*   wait_pc, wait_slot   the position of a thread inside wait()           *)
(*   call            the most recent constructor, refresh, drop or         *)
(*                   fingerprint poll: its arguments, the OS answers it    *)
(*                   read and the locals it computed                       *)
(*   io_seen         per record, the raw I/O counters of its last two      *)
(*                   successful GetProcessIoCounters reads                 *)
(***************************************************************************)
VARIABLES recs, os_handles, os_running, os_create, clock, overflow_checks,
          panicked, wait_pc, wait_slot, call, io_seen

vars == <<recs, os_handles, os_running, os_create, clock, overflow_checks,
          panicked, wait_pc, wait_slot, call, io_seen>>

RawCreate(secs) == (EpochSecs + secs) * TicksPerSec
CreateTimes == {RawCreate(secs) : secs \in 1 .. MaxStart}

NoKind == [cpu |-> FALSE, disk_usage |-> FALSE, user |-> FALSE]
NoMetrics == [proc |-> None, glob |-> None, io |-> None, mem |-> None]
NoArgs == [parent |-> None, memory |-> 0, virtual_memory |-> 0, name |-> ""]
ZeroRaw == [sys |-> 0, user |-> 0, global_kernel_time |-> 0,
            global_user_time |-> 0]
ZeroDelta == [delta_global_kernel_time |-> 0, delta_global_user_time |-> 0,
              delta_user_time |-> 0, delta_sys_time |-> 0]
ZeroIo == [read |-> 0, written |-> 0]
\* No query made.
NoQuery == [input |-> <<>>, output |-> <<>>]
NoCall == [op |-> "none", slot |-> 0, pid |-> 0, kind |-> NoKind,
           nb_cpus |-> 0, now |-> 0, args |-> NoArgs,
           open_broad |-> FALSE, open_limited |-> FALSE, basic_ok |-> FALSE,
           os_start |-> 0, raw |-> ZeroRaw, steps |-> GoodSteps,
           failed |-> {}, q |-> NoQuery,
           delta |-> ZeroDelta, result |-> "none"]

HasRec(s) == recs[s] # None
Rec(s) == recs[s][1]
Waiting(s) == wait_pc # "idle" /\ wait_slot = s

\* GetProcessTimes on the target: its creation time, or a failure.
TimesAnswer(ok) == IF ok THEN Some(os_create) ELSE None
OsAnswers(a) == [a EXCEPT !.times = TimesAnswer(a.times_ok)]

\* GetProcessTimes in a refresh: the same creation time beside the counters.
OsMetrics(m) ==
    IF m.proc = None THEN m
    ELSE [m EXCEPT !.proc = Some([Unwrap(m.proc) EXCEPT !.creation = os_create])]

ResultTag(r) == IF r.panicked THEN "panic"
                ELSE IF r.result = None THEN "none" ELSE "some"

Init(e) ==
    /\ recs = [s \in Slots |-> None]
    /\ os_handles = [tab |-> [h \in HandleIds |-> "closed"],
                     bad_close |-> FALSE]
    /\ os_running = TRUE
    /\ os_create \in e.creates
    /\ clock \in e.clock0
    /\ overflow_checks \in e.checks
    /\ panicked = FALSE
    /\ wait_pc = "idle"
    /\ wait_slot = 1
    /\ call = NoCall
    /\ io_seen = [s \in Slots |-> [prev |-> ZeroIo, cur |-> ZeroIo]]

(***************************************************************************)
(* Actions: one per operation of the record's interface, one per step of   *)
(* wait()'s polling loop, and the OS's own moves.                          *)
(***************************************************************************)
\* open(pid, now, refresh_kind): ProcessInner::new_from_pid
NewFromPid(e) ==
    \E s \in e.slots, pid \in e.pids, kind \in e.kinds, a0 \in e.answers :
        LET a == OsAnswers(a0)
            r == new_from_pid(pid, clock, kind, a, os_handles, overflow_checks)
        IN  /\ ~panicked
            /\ ~HasRec(s)
            /\ ~Waiting(s)
            /\ recs' = [recs EXCEPT ![s] = r.result]
            /\ os_handles' = r.H
            /\ panicked' = r.panicked
            /\ io_seen' = [io_seen EXCEPT ![s] = [prev |-> ZeroIo,
                                                  cur |-> ZeroIo]]
            /\ call' = [NoCall EXCEPT !.op = "new_from_pid", !.slot = s,
                           !.pid = pid, !.kind = kind, !.now = clock,
                           !.open_broad = a.open_broad,
                           !.open_limited = a.open_limited,
                           !.basic_ok = (a.basic # None),
                           !.steps = a.steps,
                           !.result = ResultTag(r)]
            /\ UNCHANGED <<os_running, os_create, clock, overflow_checks,
                           wait_pc, wait_slot>>

\* open_with_known_identity(...): ProcessInner::new_full
NewFull(e) ==
    \E s \in e.slots, pid \in e.pids, kind \in e.kinds, a0 \in e.answers,
       args \in e.args :
        LET a == OsAnswers(a0)
            r == new_full(pid, args.parent, args.memory, args.virtual_memory,
                          args.name, clock, kind, a, os_handles,
                          overflow_checks)
        IN  /\ ~panicked
            /\ ~HasRec(s)
            /\ ~Waiting(s)
            /\ recs' = [recs EXCEPT ![s] = r.result]
            /\ os_handles' = r.H
            /\ panicked' = r.panicked
            /\ io_seen' = [io_seen EXCEPT ![s] = [prev |-> ZeroIo,
                                                  cur |-> ZeroIo]]
            /\ call' = [NoCall EXCEPT !.op = "new_full", !.slot = s,
                           !.pid = pid, !.kind = kind, !.now = clock,
                           !.args = args,
                           !.open_broad = a.open_broad,
                           !.open_limited = a.open_limited,
                           !.steps = a.steps,
                           !.result = ResultTag(r)]
            /\ UNCHANGED <<os_running, os_create, clock, overflow_checks,
                           wait_pc, wait_slot>>

\* The OS queries a refresh of p issues that fail ("proc": GetProcessTimes,
\* "glob": GetSystemTimes, "io": GetProcessIoCounters, "mem":
\* GetProcessMemoryInfo).  Only GetSystemTimes is issued without a handle.
FailedQueries(p, kind, m) ==
    {q \in {"proc", "glob", "io", "mem"} :
        /\ q = "proc" => kind.cpu /\ p.handle # None /\ m.proc = None
        /\ q = "glob" => kind.cpu /\ m.glob = None
        /\ q = "io" => kind.disk_usage /\ p.handle # None /\ m.io = None
        /\ q = "mem" => p.handle # None /\ m.mem = None}

\* refresh(record, refresh_kind, nb_cpus, now): ProcessInner::update
Update(e) ==
    \E s \in e.slots, kind \in e.kinds, nb_cpus \in e.cpus, m0 \in e.metrics :
        LET m == OsMetrics(m0)
        IN  /\ ~panicked
            /\ HasRec(s)
            /\ ~Waiting(s)
            /\ recs' = [recs EXCEPT ![s] = Some(update(Rec(s), kind, nb_cpus,
                                                       clock, m))]
            /\ io_seen' = IF kind.disk_usage /\ Rec(s).handle # None
                             /\ m.io # None
                          THEN [io_seen EXCEPT ![s] = [prev |-> io_seen[s].cur,
                                                       cur |-> Unwrap(m.io)]]
                          ELSE io_seen
            /\ call' = [NoCall EXCEPT !.op = "update", !.slot = s,
                           !.pid = Rec(s).pid, !.kind = kind,
                           !.nb_cpus = IF kind.cpu THEN nb_cpus ELSE 0,
                           !.now = clock,
                           !.os_start = get_start_time(TimesAnswer(TRUE)),
                           !.failed = FailedQueries(Rec(s), kind, m),
                           !.raw = IF kind.cpu THEN raw_cpu_counters(Rec(s), m)
                                   ELSE ZeroRaw,
                           !.delta = IF kind.cpu
                                     THEN cpu_deltas(Rec(s),
                                                     raw_cpu_counters(Rec(s), m))
                                     ELSE ZeroDelta,
                           !.result = "done"]
            /\ UNCHANGED <<os_handles, os_running, os_create, clock,
                           overflow_checks, panicked, wait_pc, wait_slot>>

\* The record's owner drops it: the Arc's last reference goes, and with it
\* the HandleWrapper.
DropRecord(e) ==
    \E s \in e.slots :
        /\ ~panicked
        /\ HasRec(s)
        /\ ~Waiting(s)
        /\ recs' = [recs EXCEPT ![s] = None]
        /\ os_handles' = IF Rec(s).handle # None
                         THEN HandleWrapper_drop(os_handles,
                                                 Unwrap(Rec(s).handle))
                         ELSE os_handles
        /\ call' = [NoCall EXCEPT !.op = "drop", !.slot = s,
                       !.pid = Rec(s).pid, !.result = "done"]
        /\ UNCHANGED <<os_running, os_create, clock, overflow_checks,
                       panicked, wait_pc, wait_slot, io_seen>>

\* request_termination(record, signal): ProcessInner::kill_with.  taskkill
\* may end the process that holds the pid; the record is only read.
KillWith(e) ==
    \E s \in e.slots, supported \in BOOLEAN, killed \in BOOLEAN :
        /\ ~panicked
        /\ HasRec(s)
        /\ os_running' = IF supported /\ killed THEN FALSE ELSE os_running
        /\ UNCHANGED <<recs, os_handles, os_create, clock, overflow_checks,
                       panicked, wait_pc, wait_slot, call, io_seen>>

\* The caller's clock advances.
Tick ==
    /\ ~panicked
    /\ clock < MaxNow
    /\ clock' = clock + 1
    /\ UNCHANGED <<recs, os_handles, os_running, os_create, overflow_checks,
                   panicked, wait_pc, wait_slot, call, io_seen>>

\* The process holding TargetPid exits.
OsExit ==
    /\ ~panicked
    /\ os_running
    /\ os_running' = FALSE
    /\ UNCHANGED <<recs, os_handles, os_create, clock, overflow_checks,
                   panicked, wait_pc, wait_slot, call, io_seen>>

\* The OS gives TargetPid to a new process, created in a later second.
OsReuse ==
    /\ ~panicked
    /\ ~os_running
    /\ \E t \in CreateTimes : t > os_create /\ os_create' = t
    /\ os_running' = TRUE
    /\ UNCHANGED <<recs, os_handles, clock, overflow_checks, panicked,
                   wait_pc, wait_slot, call, io_seen>>

(***************************************************************************)
(* ProcessInner::wait, one action per step of its loop:                    *)
(*   idle -> check_running        the handle is there (else -> returned)   *)
(*   check_running -> check_start is_proc_running(handle) answered true    *)
(*   check_start -> sleeping      get_start_time(handle) = start_time      *)
(*   sleeping -> check_running    the 10 ms sleep ends                     *)
(* and -> returned wherever the loop or the function is left.              *)
(***************************************************************************)
\* `if let Some(handle) = self.get_handle()'
wait_enter(p) == IF p.handle # None THEN "check_running" ELSE "returned"

\* `while is_proc_running(handle)'
wait_while(running) == IF running THEN "check_start" ELSE "returned"

\* A loop body without the fingerprint check.
wait_body_no_check(p, times_answer) == "sleeping"

\* `if get_start_time(handle) != self.start_time() { return; }' then sleep
wait_body(p, times_answer) ==
    IF get_start_time(times_answer) # p.start_time THEN "returned"
    ELSE "sleeping"

WaitStart(e) ==
    \E s \in e.slots :
        /\ ~panicked
        /\ wait_pc = "idle"
        /\ HasRec(s)
        /\ wait_slot' = s
        /\ wait_pc' = wait_enter(Rec(s))
        /\ UNCHANGED <<recs, os_handles, os_running, os_create, clock,
                       overflow_checks, panicked, call, io_seen>>

WaitCheckRunning ==
    /\ ~panicked
    /\ wait_pc = "check_running"
    /\ wait_pc' = wait_while(os_running)
    /\ UNCHANGED <<recs, os_handles, os_running, os_create, clock,
                   overflow_checks, panicked, wait_slot, call, io_seen>>

WaitCheckStart(e) ==
    \E ok \in e.wait_times_ok :
        LET answer == TimesAnswer(ok)
            boom == overflow_checks
                    /\ compute_start_underflows(get_process_times(answer))
        IN  /\ ~panicked
            /\ wait_pc = "check_start"
            /\ panicked' = boom
            /\ wait_pc' = IF boom THEN wait_pc
                          ELSE wait_body(Rec(wait_slot), answer)
            /\ call' = [NoCall EXCEPT !.op = "wait", !.slot = wait_slot,
                           !.pid = Rec(wait_slot).pid,
                           !.os_start = get_start_time(answer),
                           !.result = IF boom THEN "panic" ELSE "compared"]
            /\ UNCHANGED <<recs, os_handles, os_running, os_create, clock,
                           overflow_checks, wait_slot, io_seen>>

WaitSleep ==
    /\ ~panicked
    /\ wait_pc = "sleeping"
    /\ wait_pc' = "check_running"
    /\ UNCHANGED <<recs, os_handles, os_running, os_create, clock,
                   overflow_checks, panicked, wait_slot, call, io_seen>>

WaitReturn ==
    /\ ~panicked
    /\ wait_pc = "returned"
    /\ wait_pc' = "idle"
    /\ UNCHANGED <<recs, os_handles, os_running, os_create, clock,
                   overflow_checks, panicked, wait_slot, call, io_seen>>

(***************************************************************************)
(* The inputs each specification draws.                                    *)
(***************************************************************************)
GoodExe == <<"C:", "bin", "proc.exe">>

\* Every OS call of a constructor succeeding.
AnswerBase ==
    [open_broad |-> TRUE, open_limited |-> TRUE, basic |-> Some(ParentPid),
     name |-> Some("proc.exe"), exe |-> GoodExe, steps |-> GoodSteps,
     times_ok |-> TRUE, times |-> None, token_open |-> TRUE,
     token_info1 |-> "insufficient", heap_ok |-> TRUE, token_info2 |-> TRUE,
     sid |-> Some("S-1-5-18")]

OpenAnswers(A) ==
    {[a EXCEPT !.open_broad = b, !.open_limited = l] :
        a \in A, b \in BOOLEAN, l \in BOOLEAN}
BasicAnswers(A) ==
    {[a EXCEPT !.basic = p] : a \in A, p \in {None, Some(0), Some(ParentPid)}}
TimesAnswers(A) == {[a EXCEPT !.times_ok = t] : a \in A, t \in BOOLEAN}
TokenAnswers(A) ==
    UNION {{[a EXCEPT !.token_open = FALSE],
            [a EXCEPT !.token_info1 = "other"],
            [a EXCEPT !.token_info1 = "ok"],
            [a EXCEPT !.heap_ok = FALSE],
            [a EXCEPT !.token_info2 = FALSE],
            [a EXCEPT !.sid = None],
            a} : a \in A}
Kinds(cpus, disks, users) ==
    {[cpu |-> c, disk_usage |-> d, user |-> u] :
        c \in cpus, d \in disks, u \in users}

Counters == 0 .. MaxCounter
IoCounters == {None} \cup {Some([read |-> x, written |-> y]) :
                              x \in Counters, y \in Counters}

Metrics(procs, globs, ios, mems) ==
    {[proc |-> p, glob |-> g, io |-> i, mem |-> x] :
        p \in procs, g \in globs, i \in ios, x \in mems}

OneProc == Some([creation |-> 0, sys |-> 1, user |-> 1])
OneGlob == Some([kernel |-> 1, user |-> 1])
OneIo == Some([read |-> 1, written |-> 1])
OneMem == Some([working_set |-> 1, private |-> 1])

KnownArgs ==
    {[parent |-> p, memory |-> x, virtual_memory |-> y, name |-> n] :
        p \in {None, Some(ParentPid)}, x \in {2}, y \in {MaxCounter + 1},
        n \in {"known.exe"}}

\* The whole interface on one record: every kind of refresh, coarse metrics.
EnvMain ==
    [slots |-> {1}, pids |-> {0, TargetPid},
     kinds |-> Kinds(BOOLEAN, BOOLEAN, {FALSE}),
     answers |-> OpenAnswers({AnswerBase}),
     args |-> KnownArgs,
     cpus |-> {1},
     metrics |-> {NoMetrics, [proc |-> OneProc, glob |-> OneGlob,
                              io |-> OneIo, mem |-> OneMem]},
     wait_times_ok |-> {TRUE},
     creates |-> CreateTimes,
     clock0 |-> {0}, checks |-> {FALSE}]

Next ==
    \/ NewFromPid(EnvMain)
    \/ NewFull(EnvMain)
    \/ Update(EnvMain)
    \/ DropRecord(EnvMain)
    \/ KillWith(EnvMain)
    \/ Tick
    \/ OsExit
    \/ OsReuse
    \/ WaitStart(EnvMain)
    \/ WaitCheckRunning
    \/ WaitCheckStart(EnvMain)
    \/ WaitSleep
    \/ WaitReturn

Spec == Init(EnvMain) /\ [][Next]_vars

\* Construction and refresh against the clock and the OS's reuse of the pid,
\* in both builds, with a creation-time query that may fail.
EnvTime ==
    [EnvMain EXCEPT !.kinds = Kinds(BOOLEAN, {FALSE}, {FALSE}),
                    !.answers = TimesAnswers(OpenAnswers({AnswerBase})),
                    !.checks = BOOLEAN]

NextTime ==
    \/ NewFromPid(EnvTime)
    \/ NewFull(EnvTime)
    \/ Update(EnvTime)
    \/ DropRecord(EnvTime)
    \/ Tick
    \/ OsExit
    \/ OsReuse

SpecTime == Init(EnvTime) /\ [][NextTime]_vars

\* The CPU arithmetic over every pair of consecutive samples, on a record
\* with a handle and on a handle-less one.  (A failed GetProcessTimes or
\* GetSystemTimes reads as zero counters, which the samples include.)
Unreachable == [AnswerBase EXCEPT !.open_broad = FALSE, !.open_limited = FALSE]
OneArgs == {[parent |-> Some(ParentPid), memory |-> 2,
             virtual_memory |-> MaxCounter + 1, name |-> "known.exe"]}
CpuProcTimes == {Some([creation |-> 0, sys |-> x, user |-> y]) :
                    x \in 0 .. 1, y \in Counters}
CpuGlobalTimes == {Some([kernel |-> x, user |-> y]) :
                      x \in Counters, y \in 0 .. 1}
EnvCpu ==
    [EnvMain EXCEPT !.pids = {TargetPid},
                    !.kinds = Kinds(BOOLEAN, {FALSE}, {FALSE}),
                    !.answers = {AnswerBase, Unreachable},
                    !.args = OneArgs,
                    !.cpus = {1, MaxCpus},
                    !.metrics = Metrics(CpuProcTimes, CpuGlobalTimes,
                                        {None}, {None})]

NextCpu ==
    \/ NewFromPid(EnvCpu)
    \/ NewFull(EnvCpu)
    \/ Update(EnvCpu)
    \/ DropRecord(EnvCpu)

SpecCpu == Init(EnvCpu) /\ [][NextCpu]_vars

\* The disk arithmetic over every pair of consecutive samples.
EnvDisk ==
    [EnvMain EXCEPT !.pids = {TargetPid},
                    !.kinds = Kinds({FALSE}, BOOLEAN, {FALSE}),
                    !.metrics = Metrics({None}, {None}, IoCounters, {None})]

NextDisk ==
    \/ NewFromPid(EnvDisk)
    \/ NewFull(EnvDisk)
    \/ Update(EnvDisk)
    \/ DropRecord(EnvDisk)

SpecDisk == Init(EnvDisk) /\ [][NextDisk]_vars

\* Only the query-limited open succeeds.
LimitedOnly == [AnswerBase EXCEPT !.open_broad = FALSE]

\* Records opened, refreshed and dropped side by side, against a failure of
\* each OS call that stands between acquiring a handle and returning: the
\* opens, the basic-information query, the creation-time query (in both
\* builds) and every step of the owner query.
EnvHandles ==
    [EnvMain EXCEPT !.slots = Slots,
                    !.pids = {TargetPid},
                    !.kinds = Kinds({FALSE}, {FALSE}, BOOLEAN),
                    !.answers = {Unreachable, LimitedOnly,
                                 [AnswerBase EXCEPT !.basic = None],
                                 [AnswerBase EXCEPT !.times_ok = FALSE]}
                                \cup TokenAnswers({AnswerBase}),
                    !.args = OneArgs,
                    !.metrics = {NoMetrics},
                    !.creates = {RawCreate(1)},
                    !.checks = BOOLEAN]

NextHandles ==
    \/ NewFromPid(EnvHandles)
    \/ NewFull(EnvHandles)
    \/ Update(EnvHandles)
    \/ DropRecord(EnvHandles)

SpecHandles == Init(EnvHandles) /\ [][NextHandles]_vars

\* One record opened against every combination of the two opens' outcomes
\* and the basic-information query's, for the real pids and for pid 0.
EnvOpen ==
    [EnvMain EXCEPT !.kinds = Kinds({FALSE}, {FALSE}, BOOLEAN),
                    !.answers = BasicAnswers(OpenAnswers({AnswerBase}))
                                \cup TimesAnswers({AnswerBase}),
                    !.metrics = {NoMetrics},
                    !.checks = BOOLEAN]

NextOpen ==
    \/ NewFromPid(EnvOpen)
    \/ NewFull(EnvOpen)
    \/ Update(EnvOpen)
    \/ DropRecord(EnvOpen)
    \/ Tick

SpecOpen == Init(EnvOpen) /\ [][NextOpen]_vars

\* A thread inside wait() while the OS ends the process and reuses its pid.
\* The waiting thread is always scheduled again: its OS queries return and
\* its sleep ends.
EnvWait ==
    [EnvMain EXCEPT !.pids = {TargetPid},
                    !.kinds = Kinds({FALSE}, {FALSE}, {FALSE}),
                    !.args = OneArgs,
                    !.metrics = {NoMetrics}]

NextWait ==
    \/ NewFromPid(EnvWait)
    \/ NewFull(EnvWait)
    \/ Update(EnvWait)
    \/ DropRecord(EnvWait)
    \/ KillWith(EnvWait)
    \/ OsExit
    \/ OsReuse
    \/ WaitStart(EnvWait)
    \/ WaitCheckRunning
    \/ WaitCheckStart(EnvWait)
    \/ WaitSleep
    \/ WaitReturn

FairSpec ==
    /\ Init(EnvWait)
    /\ [][NextWait]_vars
    /\ WF_vars(WaitCheckRunning)
    /\ WF_vars(WaitCheckStart(EnvWait))
    /\ WF_vars(WaitSleep)

\* One record constructed against the failure of each single step of
\* get_process_params, for a native and a WOW64 target, on both sides of
\* WINDOWS_8_1_OR_NEWER, in a 64-bit build.
StepFailures(st) ==
    {st,
     [st EXCEPT !.wow64 = "fail"],
     [st EXCEPT !.basic = FALSE],
     [st EXCEPT !.peb = FALSE],
     [st EXCEPT !.proc_params = FALSE],
     [st EXCEPT !.cmd_script = <<OtherError>>],
     [st EXCEPT !.cmd_script = <<GoodScript[1], OtherError>>],
     [st EXCEPT !.cmd_read = FALSE],
     [st EXCEPT !.cwd_read = FALSE],
     [st EXCEPT !.env_region = FALSE],
     [st EXCEPT !.env_read = FALSE]}
StepAnswers ==
    UNION {StepFailures([GoodSteps EXCEPT !.wow64 = w, !.win81 = n]) :
              w \in {"native", "wow64"}, n \in BOOLEAN}

EnvParams ==
    [EnvMain EXCEPT !.pids = {TargetPid},
                    !.kinds = Kinds({FALSE}, {FALSE}, {FALSE}),
                    !.answers = {[a EXCEPT !.steps = st] :
                                    a \in {AnswerBase, LimitedOnly},
                                    st \in StepAnswers},
                    !.args = OneArgs,
                    !.metrics = {NoMetrics}]

NextParams ==
    \/ NewFromPid(EnvParams)
    \/ NewFull(EnvParams)
    \/ Update(EnvParams)
    \/ DropRecord(EnvParams)

SpecParams == Init(EnvParams) /\ [][NextParams]_vars

\* One record refreshed while each single metric query fails in turn, the
\* clock advancing between refreshes.
AllOne == [proc |-> OneProc, glob |-> OneGlob, io |-> OneIo, mem |-> OneMem]
EnvRefresh ==
    [EnvMain EXCEPT !.pids = {TargetPid},
                    !.answers = {AnswerBase, Unreachable},
                    !.args = OneArgs,
                    !.metrics = {AllOne,
                                 [AllOne EXCEPT !.proc = None],
                                 [AllOne EXCEPT !.io = None],
                                 [AllOne EXCEPT !.mem = None]}]

NextRefresh ==
    \/ NewFromPid(EnvRefresh)
    \/ NewFull(EnvRefresh)
    \/ Update(EnvRefresh)
    \/ DropRecord(EnvRefresh)
    \/ Tick

SpecRefresh == Init(EnvRefresh) /\ [][NextRefresh]_vars

(***************************************************************************)
(* Claims.                                                                 *)
(***************************************************************************)
ObservedStart == compute_start(os_create)

\* The record's start_time is the start time of a real creation time (not
\* the value a failed creation-time query leaves).
ValidStart(p) == \E t \in CreateTimes : p.start_time = compute_start(t)

\* C1: a refresh that finds the OS start time of the record's identifier
\* different from the record's start_time leaves the record reported as
\* Terminated and writes none of the new process's metrics into it; a
\* Terminated record never becomes live again.
C1_ReuseTerminatesRecord ==
    [][\A s \in Slots :
          /\ (Update(EnvTime) /\ call'.slot = s /\ Rec(s).handle # None
              /\ ValidStart(Rec(s))
              /\ ObservedStart # Rec(s).start_time)
             => /\ status(recs'[s][1]) = "Terminated"
                /\ recs'[s][1].cpu_usage = Rec(s).cpu_usage
                /\ recs'[s][1].cpu_calc_values = Rec(s).cpu_calc_values
                /\ recs'[s][1].memory = Rec(s).memory
                /\ recs'[s][1].virtual_memory = Rec(s).virtual_memory
                /\ recs'[s][1].read_bytes = Rec(s).read_bytes
                /\ recs'[s][1].written_bytes = Rec(s).written_bytes
                /\ recs'[s][1].run_time = Rec(s).run_time
          /\ (HasRec(s) /\ recs'[s] # None /\ status(Rec(s)) = "Terminated")
             => status(recs'[s][1]) = "Terminated"]_vars

\* The record the most recent call acted on.
CallRec == Rec(call.slot)
CpuRefreshed == call.op = "update" /\ call.kind.cpu /\ HasRec(call.slot)

\* C2: in every reachable state cpu_usage lies in [0, 100 x nb_cpus], for
\* the nb_cpus of the refresh that computed it and any raw counters.
C2_CpuUsageInRange ==
    /\ \A s \in Slots : HasRec(s) =>
          /\ Rec(s).cpu_usage.num >= 0
          /\ Rec(s).cpu_usage.den > 0
    /\ CpuRefreshed =>
          CallRec.cpu_usage.num <= 100 * call.nb_cpus * CallRec.cpu_usage.den

\* C3: in a CPU refresh each of the four deltas is zero when the new raw
\* counter is smaller than the stored previous one, and cpu_usage is 0
\* when the raw values regress.
C3_RegressedDeltasClampToZero ==
    [][\A s \in Slots :
          (Update(EnvCpu) /\ call'.slot = s /\ call'.kind.cpu)
          => LET old == Rec(s).cpu_calc_values
                 raw == call'.raw
                 d == call'.delta
             IN  /\ raw.user < old.old_process_user_cpu
                    => d.delta_user_time = 0
                 /\ raw.sys < old.old_process_sys_cpu
                    => d.delta_sys_time = 0
                 /\ raw.global_user_time < old.old_system_user_cpu
                    => d.delta_global_user_time = 0
                 /\ raw.global_kernel_time < old.old_system_sys_cpu
                    => d.delta_global_kernel_time = 0
                 /\ (/\ raw.user < old.old_process_user_cpu
                     /\ raw.sys < old.old_process_sys_cpu
                     /\ raw.global_user_time < old.old_system_user_cpu
                     /\ raw.global_kernel_time < old.old_system_sys_cpu)
                    => recs'[s][1].cpu_usage.num = 0]_vars

GlobalDeltaSum ==
    call.delta.delta_global_user_time + call.delta.delta_global_kernel_time

\* C4: a CPU refresh whose two global deltas sum to zero sets cpu_usage to
\* 0 and still replaces the four stored counters by the raw values it read.
C4_ZeroDenominatorStoresSample ==
    (CpuRefreshed /\ GlobalDeltaSum = 0)
    => /\ CallRec.cpu_usage = ZeroF32
       /\ CallRec.cpu_calc_values =
              [old_process_user_cpu |-> call.raw.user,
               old_process_sys_cpu |-> call.raw.sys,
               old_system_user_cpu |-> call.raw.global_user_time,
               old_system_sys_cpu |-> call.raw.global_kernel_time]

\* C4 witness: a CPU refresh that read non-zero global counters equal to
\* the stored ones (no global time elapsed) while the process counters
\* advanced.
C4_Witness ==
    /\ CpuRefreshed
    /\ GlobalDeltaSum = 0
    /\ call.raw.global_user_time > 0
    /\ call.delta.delta_user_time > 0
    /\ CallRec.handle # None
    /\ CallRec.cpu_usage = ZeroF32
    /\ CallRec.cpu_calc_values.old_process_user_cpu = call.raw.user

Max0(x) == IF x < 0 THEN 0 ELSE x

\* C5: disk_usage() reports the clamped difference of the raw counters of
\* the last two successful reads (0 before the first) as read_bytes and
\* written_bytes, and the latest raw counters as the totals.
C5_DiskDeltas ==
    \A s \in Slots : HasRec(s) =>
        LET du == disk_usage(Rec(s))
            seen == io_seen[s]
        IN  /\ du.read_bytes = Max0(seen.cur.read - seen.prev.read)
            /\ du.written_bytes = Max0(seen.cur.written - seen.prev.written)
            /\ du.total_read_bytes = seen.cur.read
            /\ du.total_written_bytes = seen.cur.written

\* C5 witness: the read counter regressed to a non-zero value while the
\* write counter advanced.
C5_Witness ==
    /\ HasRec(1)
    /\ io_seen[1].prev.read > io_seen[1].cur.read
    /\ io_seen[1].cur.read > 0
    /\ io_seen[1].cur.written > io_seen[1].prev.written
    /\ io_seen[1].prev.written > 0
    /\ disk_usage(Rec(1)).read_bytes = 0
    /\ disk_usage(Rec(1)).total_read_bytes = io_seen[1].cur.read

\* C6: for a record opened with a handle and a real start time, run_time
\* never decreases from construction onward, and a refresh at time t at or
\* after start_time leaves run_time = t - start_time.
C6_RunTimeMonotone ==
    [][\A s \in Slots :
          (HasRec(s) /\ recs'[s] # None /\ Rec(s).handle # None
           /\ ValidStart(Rec(s)))
          => /\ recs'[s][1].run_time >= Rec(s).run_time
             /\ (Update(EnvTime) /\ call'.slot = s
                 /\ clock >= Rec(s).start_time)
                => recs'[s][1].run_time = clock - Rec(s).start_time]_vars

\* C7: no operation on an existing record changes its pid or its
\* start_time; a refresh keeps the start_time of construction even when the
\* OS now reports another creation time for the pid.
C7_IdentityAndStartFrozen ==
    [][\A s \in Slots :
          (HasRec(s) /\ recs'[s] # None)
          => /\ recs'[s][1].pid = Rec(s).pid
             /\ recs'[s][1].start_time = Rec(s).start_time]_vars

\* C7 witness: a record refreshed, with its process times read, while the
\* OS reported another creation time for its pid.
C7_Witness ==
    /\ HasRec(1)
    /\ call.op = "update" /\ call.slot = 1
    /\ Rec(1).handle # None
    /\ call.kind.cpu /\ call.raw.user > 0
    /\ call.os_start # Rec(1).start_time

WaitGone ==
    ~os_running \/ ObservedStart # Rec(wait_slot).start_time

WaitStepsRight ==
    /\ (wait_pc = "idle" /\ wait_pc' # "idle")
       => wait_pc' = IF recs'[wait_slot'][1].handle = None THEN "returned"
                     ELSE "check_running"
    /\ (wait_pc = "check_running" /\ wait_pc' # wait_pc)
       => wait_pc' = IF os_running THEN "check_start" ELSE "returned"
    /\ (wait_pc = "check_start" /\ wait_pc' # wait_pc)
       => wait_pc' = IF ObservedStart # Rec(wait_slot).start_time
                     THEN "returned" ELSE "sleeping"
    /\ (wait_pc = "sleeping" /\ wait_pc' # wait_pc)
       => wait_pc' = "check_running"

\* C8: wait() on a handle-less record returns at once; on a record with a
\* handle every poll checks that the process runs and then compares the OS
\* start time with start_time, returning at the first poll where the
\* process does not run or the start times differ; and once the original
\* process is gone (exited, or its pid held by a process with another start
\* time) a waiting thread eventually returns.
C8_WaitReturns ==
    /\ [][WaitStepsRight]_vars
    /\ []((wait_pc \in {"check_running", "check_start", "sleeping"}
           /\ WaitGone)
          => <>(wait_pc = "returned"))

\* C8 witness: wait() returned from a poll that found the pid running under
\* another start time.
C8_Witness ==
    /\ wait_pc = "returned"
    /\ call.op = "wait" /\ call.result = "compared"
    /\ HasRec(wait_slot)
    /\ call.os_start # Rec(wait_slot).start_time
    /\ ValidStart(Rec(wait_slot))

HeldHandles == {Unwrap(Rec(s).handle) : s \in {t \in Slots : HasRec(t) /\ Rec(t).handle # None}}

\* C9: no handle is closed twice, the open handles are exactly the handles
\* of the live records, and no two records hold the same handle: after any
\* sequence of open / refresh / drop the number of open handles equals the
\* number of live records holding one.
C9_HandlesBalanced ==
    /\ ~os_handles.bad_close
    /\ OpenIds(os_handles) = HeldHandles
    /\ Cardinality(OpenIds(os_handles)) =
           Cardinality({s \in Slots : HasRec(s) /\ Rec(s).handle # None})

\* C9 witness: an open that acquired a handle and then failed its
\* basic-information query, while another record holds its handle.
C9_Witness ==
    /\ call.op = "new_from_pid" /\ call.result = "none"
    /\ call.pid # 0 /\ call.open_broad /\ ~call.basic_ok
    /\ \E s \in Slots : HasRec(s) /\ Rec(s).handle # None
                        /\ Rec(s).user_id # None
    /\ Cardinality(OpenIds(os_handles)) = 1

Acquirable == call.pid # 0 /\ (call.open_broad \/ call.open_limited)

HandleLessAsSupplied ==
    /\ CallRec.handle = None
    /\ CallRec.pid = call.pid
    /\ CallRec.parent = call.args.parent
    /\ CallRec.name = call.args.name
    /\ CallRec.memory = call.args.memory
    /\ CallRec.virtual_memory = call.args.virtual_memory
    /\ CallRec.cmd = <<>> /\ CallRec.environ = <<>> /\ CallRec.cwd = <<>>
    /\ CallRec.exe = <<>> /\ CallRec.root = <<>>
    /\ CallRec.user_id = None
    /\ CallRec.start_time = 0 /\ CallRec.run_time = 0

NewFullAlwaysRecord ==
    (call.op = "new_full" /\ call.result # "panic")
    => /\ call.result = "some"
       /\ ~Acquirable => HandleLessAsSupplied
       /\ Acquirable => CallRec.handle # None

RequestsMemory(kind) == "memory" \in DOMAIN kind /\ kind.memory

\* C11: a refresh leaves the fields of every category it was not asked for
\* unchanged: cpu_usage and the four stored CPU counters when CPU is not
\* requested, the four disk counters when disk is not requested, memory and
\* virtual_memory when memory is not requested.
C11_UnrequestedCategoriesUntouched ==
    [][\A s \in Slots :
          (Update(EnvMain) /\ call'.slot = s)
          => LET old == Rec(s)
                 new == recs'[s][1]
                 kind == call'.kind
             IN  /\ ~kind.cpu
                    => /\ new.cpu_usage = old.cpu_usage
                       /\ new.cpu_calc_values = old.cpu_calc_values
                 /\ ~kind.disk_usage
                    => /\ new.read_bytes = old.read_bytes
                       /\ new.written_bytes = old.written_bytes
                       /\ new.old_read_bytes = old.old_read_bytes
                       /\ new.old_written_bytes = old.old_written_bytes
                 /\ ~RequestsMemory(kind)
                    => /\ new.memory = old.memory
                       /\ new.virtual_memory = old.virtual_memory]_vars

\* The steps every field read from the parameters block depends on.
BlockRead(st) ==
    /\ st.target64
    /\ st.wow64 # "fail"
    /\ st.wow64 = "native" => st.basic
    /\ st.peb
    /\ st.proc_params

\* Whether each field's own retrieval succeeds.
CmdRetrievable(st) ==
    IF st.win81 THEN ph_query_process_variable_size(st.cmd_script).result # None
    ELSE BlockRead(st) /\ st.cmd_read
CwdRetrievable(st) == BlockRead(st) /\ st.cwd_read
EnvRetrievable(st) == BlockRead(st) /\ st.env_region /\ st.env_read

\* C12: a construction on a handle that can read the target's memory never
\* fails because a step of the parameter retrieval failed, and leaves each
\* of cmd, cwd and environ filled whenever the steps that field itself
\* depends on succeeded (the command line of the handle-based query depends
\* on that query alone).
C12_FieldsIndependentlyBestEffort ==
    (/\ call.op \in {"new_from_pid", "new_full"}
     /\ call.open_broad
     /\ call.op = "new_from_pid" => call.basic_ok)
    => /\ call.result = "some"
       /\ CmdRetrievable(call.steps) => CallRec.cmd = GoodCmd
       /\ CwdRetrievable(call.steps) => CallRec.cwd = GoodCwd
       /\ EnvRetrievable(call.steps)
          => /\ CallRec.environ = get_proc_env(call.steps.env_data)
             /\ CallRec.environ # <<>>

\* C13: after a refresh of a record with a handle, a requested metric whose
\* OS query failed is at its zero default (cpu_usage 0; interval read and
\* written bytes 0; memory and virtual_memory 0), and the refresh went on:
\* every other requested metric holds what its query read, run_time is
\* recomputed from `now' and the record is marked updated.
C13_FailedMetricZeroRestRefreshed ==
    (call.op = "update" /\ HasRec(call.slot) /\ CallRec.handle # None)
    => /\ "proc" \in call.failed => CallRec.cpu_usage.num = 0
       /\ "io" \in call.failed
          => /\ disk_usage(CallRec).read_bytes = 0
             /\ disk_usage(CallRec).written_bytes = 0
       /\ "mem" \in call.failed
          => /\ CallRec.memory = 0
             /\ CallRec.virtual_memory = 0
       /\ (call.kind.cpu /\ "proc" \notin call.failed)
          => /\ CallRec.cpu_calc_values.old_process_user_cpu = call.raw.user
             /\ CallRec.cpu_calc_values.old_process_sys_cpu = call.raw.sys
       /\ (call.kind.disk_usage /\ "io" \notin call.failed)
          => /\ CallRec.read_bytes = io_seen[call.slot].cur.read
             /\ CallRec.written_bytes = io_seen[call.slot].cur.written
       /\ "mem" \notin call.failed
          => /\ CallRec.memory = Unwrap(OneMem).working_set
             /\ CallRec.virtual_memory = Unwrap(OneMem).private
       /\ CallRec.run_time = saturating_sub(call.now, CallRec.start_time)
       /\ CallRec.updated

(***************************************************************************)
(* The queries on their own: each action makes one call of one query       *)
(* function on answers the OS may give, and keeps what went in and what    *)
(* came out in call.q.  No record is built or changed, and a behaviour     *)
(* makes one query: the queries keep nothing between calls.                *)
(***************************************************************************)
MaxScriptLen == 5
MaxEnvLen == 5

\* What one OS call of a variable-length query may answer.  "too_small"
\* stands for the size-mismatch codes, len for the length reported back.
QueryAnswers ==
    {[st |-> "ok", len |-> 2], [st |-> "too_small", len |-> 2],
     [st |-> "too_small", len |-> 4], OtherError}
Scripts == UNION {[1 .. k -> QueryAnswers] : k \in 0 .. MaxScriptLen}

\* The UTF-16 units of an environment block: the terminator, '=', a
\* letter, and an unpaired surrogate.
EnvUnits == {0, equals, 65, 55296}
EnvBlocks == UNION {[1 .. k -> EnvUnits] : k \in 0 .. MaxEnvLen}

EnvQuery ==
    [EnvMain EXCEPT !.pids = {0, TargetPid},
                    !.kinds = Kinds({FALSE}, {FALSE}, BOOLEAN),
                    !.answers = OpenAnswers(TokenAnswers({AnswerBase}))]

\* ph_query_process_variable_size(handle, class) on a scripted OS.
QueryAttribute(e) ==
    /\ call.q = NoQuery
    /\ \E script \in Scripts :
          call' = [NoCall EXCEPT
                     !.op = "ph_query_process_variable_size",
                     !.q = [input |-> script,
                            output |-> ph_query_process_variable_size(script)]]
    /\ UNCHANGED <<recs, os_handles, os_running, os_create, clock,
                   overflow_checks, panicked, wait_pc, wait_slot, io_seen>>

\* get_process_name(pid) on a scripted OS.
QueryName(e) ==
    /\ call.q = NoQuery
    /\ \E script \in Scripts, alloc_fails_at \in -1 .. 4,
          image \in {<<>>, <<"C:", "proc.exe">>} :
          call' = [NoCall EXCEPT
                     !.op = "get_process_name",
                     !.q = [input |-> [script |-> script,
                                       alloc_fails_at |-> alloc_fails_at,
                                       image |-> image],
                            output |-> get_process_name(script,
                                                        alloc_fails_at,
                                                        image)]]
    /\ UNCHANGED <<recs, os_handles, os_running, os_create, clock,
                   overflow_checks, panicked, wait_pc, wait_slot, io_seen>>

\* get_process_user_id(handle, refresh_kind) on the handle table as it is.
QueryToken(e) ==
    /\ call.q = NoQuery
    /\ \E a \in e.answers, kind \in e.kinds :
          LET r == get_process_user_id(kind, a, os_handles)
          IN  /\ call' = [NoCall EXCEPT
                            !.op = "get_process_user_id", !.kind = kind,
                            !.q = [input |-> a, output |-> r]]
              /\ os_handles' = r.H
    /\ UNCHANGED <<recs, os_running, os_create, clock, overflow_checks,
                   panicked, wait_pc, wait_slot, io_seen>>

\* get_proc_env on the bytes get_process_data read.
ParseEnv(e) ==
    /\ call.q = NoQuery
    /\ \E data \in EnvBlocks :
          call' = [NoCall EXCEPT
                     !.op = "get_proc_env",
                     !.q = [input |-> data, output |-> get_proc_env(data)]]
    /\ UNCHANGED <<recs, os_handles, os_running, os_create, clock,
                   overflow_checks, panicked, wait_pc, wait_slot, io_seen>>

\* get_process_handler(pid); the caller drops the wrapper it got.
Acquire(e) ==
    /\ call.q = NoQuery
    /\ \E pid \in e.pids, a \in e.answers :
          LET r == get_process_handler(pid, a, os_handles)
          IN  /\ call' = [NoCall EXCEPT
                            !.op = "get_process_handler", !.pid = pid,
                            !.open_broad = a.open_broad,
                            !.open_limited = a.open_limited,
                            !.q = [input |-> os_handles, output |-> r]]
              /\ os_handles' = IF r.handle = None THEN r.H
                               ELSE HandleWrapper_drop(r.H, Unwrap(r.handle))
    /\ UNCHANGED <<recs, os_running, os_create, clock, overflow_checks,
                   panicked, wait_pc, wait_slot, io_seen>>

NextQuery ==
    \/ QueryAttribute(EnvQuery)
    \/ QueryName(EnvQuery)
    \/ QueryToken(EnvQuery)
    \/ ParseEnv(EnvQuery)
    \/ Acquire(EnvQuery)

SpecQuery == Init(EnvQuery) /\ [][NextQuery]_vars

\* The attribute query was called on script.
AttributeQueried(script) ==
    /\ call.op = "ph_query_process_variable_size"
    /\ call.q.input = script

\* C14: when the OS answers "buffer too small" to the zero-size probe and to
\* one sized fetch and then succeeds, the attribute query returns the data
\* the OS wrote for the size it reported last, terminator appended.
C14_ConvergesAfterTwoTooSmall ==
    \A n1, n2 \in {2, 4} :
        AttributeQueried(<<[st |-> "too_small", len |-> n1],
                           [st |-> "too_small", len |-> n2],
                           [st |-> "ok", len |-> 2]>>)
            => call.q.output.result = Some(AttrData(n2 \div 2) \o <<0>>)

\* The first n answers of script are all size mismatches.
AllMismatch(script, n) ==
    \A i \in 1 .. n : Answer(script, i).st = "too_small"

NameQueryBounded ==
    call.op = "get_process_name" =>
        LET inp == call.q.input
            out == call.q.output
            Allocated(n) == inp.alloc_fails_at \notin 0 .. n - 1
        IN  /\ out.attempts <= 4
            /\ out.heap.allocs <= 4
            /\ Allocated(4) /\ AllMismatch(inp.script, 4)
                   => out.result = None /\ out.attempts = 4
            /\ \A k \in 1 .. 4 :
                   /\ Allocated(k)
                   /\ AllMismatch(inp.script, k - 1)
                   /\ Answer(inp.script, k).st = "other"
                   => out.result = None /\ out.attempts = k

AttributeQueryBounded ==
    call.op = "ph_query_process_variable_size" =>
        LET probe == Answer(call.q.input, 1)
            fetch == Answer(call.q.input, 2)
            out == call.q.output
        IN  /\ out.calls <= 2
            /\ probe.st = "other" => out.result = None /\ out.calls = 1
            /\ probe.st # "other" /\ fetch.st # "ok"
                   => out.result = None /\ out.calls = 2

TokenQueryBounded ==
    call.op = "get_process_user_id" =>
        LET a == call.q.input
            out == call.q.output
            asked == call.kind.user /\ a.token_open
        IN  /\ out.calls <= 2
            /\ asked /\ a.token_info1 = "other"
                   => out.uid = None /\ out.calls = 1
            /\ asked /\ ~a.token_info2 => out.uid = None

\* C15: every variable-length query makes a bounded number of OS calls: the
\* name query gives up with no name after at most 4 attempts (mismatch at
\* attempts 0..3), the attribute query and the token query after at most 2
\* calls, and an incompatible error on any call ends the query at that call.
C15_QueriesBounded ==
    /\ NameQueryBounded
    /\ AttributeQueryBounded
    /\ TokenQueryBounded

\* The name query met four mismatches where a fifth call would have
\* succeeded, and gave up.
C15_Witness ==
    /\ call.op = "get_process_name"
    /\ call.q.input.alloc_fails_at = -1
    /\ AllMismatch(call.q.input.script, 4)
    /\ Answer(call.q.input.script, 5).st = "ok"
    /\ call.q.output.result = None
    /\ call.q.output.attempts = 4

\* The mode a handle value was opened with.
OpenedAs(H, handle) == H.tab[Unwrap(handle)]

\* C16: for a non-zero pid the acquire asks for the broad open first and for
\* the query-limited open only when the broad one failed; it returns the
\* first handle that opened, None exactly when both opens failed, and
\* leaves at most one more handle open than it found.
C16_BroadThenLimited ==
    call.op = "get_process_handler" /\ call.pid # 0 =>
        LET before == call.q.input
            out == call.q.output
        IN  /\ out.opens[1] = "broad"
            /\ "limited" \in {out.opens[i] : i \in DOMAIN out.opens}
                   <=> ~call.open_broad
            /\ Len(out.opens) <= 2
            /\ call.open_broad
                   => out.handle # None /\ OpenedAs(out.H, out.handle) = "broad"
            /\ ~call.open_broad /\ call.open_limited
                   => /\ out.handle # None
                      /\ OpenedAs(out.H, out.handle) = "limited"
            /\ out.handle = None <=> ~call.open_broad /\ ~call.open_limited
            /\ OpenIds(out.H) \ OpenIds(before) =
                   IF out.handle = None THEN {} ELSE {Unwrap(out.handle)}
            /\ OpenIds(before) \subseteq OpenIds(out.H)

\* The broad open was refused and the acquire came back with the
\* query-limited handle.
C16_Witness ==
    /\ call.op = "get_process_handler"
    /\ call.pid # 0
    /\ ~call.open_broad
    /\ call.open_limited
    /\ call.q.output.handle # None
    /\ call.q.output.opens = <<"broad", "limited">>

\* The entries of a terminator-separated buffer, by where each starts: an
\* entry starts at the front or after a terminator and runs up to the next
\* terminator; units after the last terminator form no entry.
EntryStarts(raw) ==
    {p \in 1 .. Len(raw) :
        /\ p = 1 \/ raw[p - 1] = 0
        /\ \E q \in p .. Len(raw) : raw[q] = 0}
EntryAt(raw, p) ==
    LET q == CHOOSE q \in p .. Len(raw) :
                 raw[q] = 0 /\ \A j \in p .. q - 1 : raw[j] # 0
    IN  SubSeq(raw, p, q - 1)
HasEquals(entry) == \E i \in DOMAIN entry : entry[i] = equals

\* The starts of the maximal prefix of entries that all contain '='.
KeptStarts(raw) ==
    {p \in EntryStarts(raw) :
        \A p2 \in EntryStarts(raw) : p2 <= p => HasEquals(EntryAt(raw, p2))}
ExpectedEnv(raw) ==
    LET kept == KeptStarts(raw)
    IN  [k \in 1 .. Cardinality(kept) |->
            to_string_lossy(EntryAt(raw,
                CHOOSE p \in kept : Cardinality({x \in kept : x <= p}) = k))]

\* C17: parsing an environment block returns, in order and with duplicates,
\* exactly the entries before the first entry without '=' (the empty entry
\* that ends the block included), each decoded to a string; no returned
\* entry holds a terminator or lacks '=', and the parse ends on every
\* buffer.
C17_EnvIsMaximalPrefix ==
    call.op = "get_proc_env" =>
        LET raw == call.q.input \o <<0>>
            out == call.q.output
        IN  /\ out = ExpectedEnv(raw)
            /\ \A i \in DOMAIN out :
                   /\ HasEquals(out[i])
                   /\ \A j \in DOMAIN out[i] : out[i][j] # 0

\* An entry without '=' stood between two entries with one: the parse kept
\* the first and dropped the rest.
C17_Witness ==
    /\ call.op = "get_proc_env"
    /\ call.q.input = <<equals, 0, 65, 0, equals>>
    /\ call.q.output = <<(<<equals>>)>>

\* C18: a construction whose creation-time query fails (the raw time stays
\* 0, below the epoch offset) neither faults nor underflows: no construction
\* panics, and every record's start_time is the start time of a real
\* creation time or the default 0, with run_time no more than the clock.
C18_CreationTimeFailureDefaults ==
    /\ ~panicked
    /\ \A s \in Slots :
           HasRec(s) => /\ ValidStart(Rec(s)) \/ Rec(s).start_time = 0
                        /\ Rec(s).run_time <= clock

\* Every buffer of the books was released once, through its own allocator,
\* and none was touched after its release.
HeapBalanced(heap) ==
    /\ heap.live = {}
    /\ heap.frees = heap.allocs
    /\ ~heap.bad_free
    /\ ~heap.bad_use

\* C19: every buffer allocated for a variable-length query is released
\* exactly once, through the allocator it came from, on every exit path: the
\* name loop frees each attempt's buffer before the next attempt and before
\* every return and allocates one buffer per OS call; the token query frees
\* its buffer on its success and on its failure return; no buffer is freed
\* twice or used after its release.
C19_BuffersReleasedOnce ==
    /\ call.op = "get_process_name" =>
           /\ HeapBalanced(call.q.output.heap)
           /\ call.q.output.heap.allocs = call.q.output.attempts
    /\ call.op = "get_process_user_id" =>
           /\ HeapBalanced(call.q.output.heap)
           /\ call.q.output.heap.allocs <= 1

\* The name query retried twice and then read the name: three buffers
\* allocated, three released.
C19_Witness ==
    /\ call.op = "get_process_name"
    /\ AllMismatch(call.q.input.script, 2)
    /\ call.q.output.result # None
    /\ call.q.output.attempts = 3
    /\ call.q.output.heap.frees = 3

====
